---- MODULE Spec2Model ----
(***************************************************************************)
(* Model of the obsidian-open-in-new-tab plugin (src/main.ts).             *)
(*                                                                         *)
(* The plugin wraps Workspace.openLinkText (monkeyPatchOpenLinkText) and   *)
(* installs one capture-phase click listener on the document               *)
(* (generateClickHandler).  The state is the host's: the open leaves and   *)
(* the active leaf.  A click is delivered in two phases, as the DOM does:  *)
(* the capture listener of the plugin, then (unless propagation was        *)
(* stopped) the host's own handlers.  dispatchEvent is synchronous, so the *)
(* events in flight form a stack.                                          *)
(*                                                                         *)
(* Strings are sequences of one-character strings, so that split("#"),     *)
(* `${fileName}.md` and endsWith are computed as the code computes them.   *)
(***************************************************************************)
EXTENDS Integers, Sequences, FiniteSets, TLC

VARIABLES
    leaves,      \* the workspace's leaves in iterateAllLeaves order: [type, file]
    activeLeaf,  \* index of the active leaf
    events,      \* stack of click events in flight (the last one is being delivered)
    log,         \* what the current gesture did, in order
    gesture      \* the current gesture (a user click or a call of openLinkText) at its entry

vars == <<leaves, activeLeaf, events, log, gesture>>

----------------------------------------------------------------------------
(* Bounds *)

\* Gestures start only while at most this many leaves are open.
MaxLeaves == 2

\* dispatchEvent nests at most this deep.
MaxNesting == 3

----------------------------------------------------------------------------
(* Optional values: undefined / null is None *)

None == <<>>

Some(x) == <<x>>

IsSome(o) == o # <<>>

Get(o) == o[1]

----------------------------------------------------------------------------
(* Strings *)

\* ".md", as in `${fileName}.md`
MD == <<".", "m", "d">>

\* String.prototype.endsWith
EndsWith(s, suffix) ==
    /\ Len(suffix) <= Len(s)
    /\ SubSeq(s, Len(s) - Len(suffix) + 1, Len(s)) = suffix

\* s.split("#")[0]: the text before the first "#"
SplitHashFirst(s) ==
    LET hashes == {i \in 1..Len(s) : s[i] = "#"}
    IN  IF hashes = {} THEN s
        ELSE SubSeq(s, 1, (CHOOSE i \in hashes : \A j \in hashes : i <= j) - 1)

\* The elements of a set of numbers, ascending
RECURSIVE Ascending(_)
Ascending(S) ==
    IF S = {} THEN <<>>
    ELSE LET m == CHOOSE i \in S : \A j \in S : i <= j
         IN  <<m>> \o Ascending(S \ {m})

----------------------------------------------------------------------------
(* Inputs *)

B_md == <<"B", ".", "m", "d">>

X_B_md == <<"x", "/", "B", ".", "m", "d">>

Files == {B_md, X_B_md}

LinkTexts ==
    { <<>>,                          \* ""
      <<"#", "h">>,                  \* "#h"
      <<"B">>,                       \* "B"
      <<"B", "#", "h">> }            \* "B#h"

SourcePaths == Files

NewLeafArgs == {None, Some(FALSE), Some(TRUE)}

OpenViewStates == {None, Some("ovs")}

ViewTypes == {"markdown", "kanban"}

LeafStates ==
    {[type |-> "empty", file |-> None]}
        \cup {[type |-> t, file |-> Some(f)] : t \in ViewTypes, f \in Files}

DailyLabel == "Open today's daily note"

UniqueLabel == "Create new unique note"

\* The closest(".nav-file-title") element of a file-tree row, by its data-path
NavTitle(dataPath) == Some([dataPath |-> dataPath])

Element(classes, label, title) ==
    [classList |-> classes, ariaLabel |-> label, closestNavTitle |-> title]

Targets ==
    {Element({"nav-file-title"}, None, NavTitle(Some(f))) : f \in Files}
        \cup { Element({"nav-file-title-content"}, None, NavTitle(Some(B_md))),
               Element({"nav-file-title"}, None, NavTitle(None)),
               Element({"nav-file-title"}, None, NavTitle(Some(<<>>))),
               Element({"nav-file-title-content"}, None, None),
               Element({"side-dock-ribbon-action"}, Some(DailyLabel), None),
               Element({"side-dock-ribbon-action"}, Some(UniqueLabel), None),
               Element({"clickable-icon"}, Some(DailyLabel), None),
               Element({"search-result-file-title"}, None, None) }

ModifierSets == {{}, {"shift"}, {"ctrl"}, {"meta"}, {"alt"}}

MouseEvent(target, mods, trusted) ==
    [ target     |-> target,
      shiftKey   |-> "shift" \in mods,
      ctrlKey    |-> "ctrl" \in mods,
      metaKey    |-> "meta" \in mods,
      altKey     |-> "alt" \in mods,
      bubbles    |-> TRUE,
      cancelable |-> TRUE,
      isTrusted  |-> trusted,
      phase      |-> "capture",
      stopped    |-> 0 ]

----------------------------------------------------------------------------
(* The log *)

NoData == [none |-> TRUE]

LogEntry(op, leaf, depth, data) ==
    [op |-> op, leaf |-> leaf, depth |-> depth, data |-> data]

LinkArgs(linkText, sourcePath, newLeaf, openViewState) ==
    [ linkText      |-> linkText,
      sourcePath    |-> sourcePath,
      newLeaf       |-> newLeaf,
      openViewState |-> openViewState ]

\* The state a handler works on: the host's workspace, the log, and the event
\* being delivered (its depth on the stack, its stopPropagation count, and the
\* events the handler dispatched).
World(depth) ==
    [ leaves     |-> leaves,
      activeLeaf |-> activeLeaf,
      log        |-> log,
      depth      |-> depth,
      stopped    |-> 0,
      dispatch   |-> <<>> ]

----------------------------------------------------------------------------
(* The host: Workspace and the DOM *)

\* workspace.setActiveLeaf(leaf)
SetActiveLeaf(w, i) ==
    [w EXCEPT !.activeLeaf = i,
              !.log = Append(@, LogEntry("setActiveLeaf", i, w.depth, NoData))]

\* event.stopPropagation()
StopPropagation(w) ==
    [w EXCEPT !.stopped = @ + 1,
              !.log = Append(@, LogEntry("stopPropagation", w.activeLeaf, w.depth, NoData))]

\* target.dispatchEvent(clickEvent): the event is delivered before the call returns
DispatchEvent(w, ev) ==
    [w EXCEPT !.dispatch = Append(@, ev),
              !.log = Append(@, LogEntry("dispatchEvent", w.activeLeaf, w.depth, ev))]

\* workspace.getLeavesOfType(type), in iteration order
LeavesOfType(ls, type) == Ascending({i \in 1..Len(ls) : ls[i].type = type})

\* The view the host shows a file in
HostViewType(file) == IF EndsWith(file, MD) THEN "markdown" ELSE "image"

\* The file the host resolves a link to: the source itself for a heading or
\* block link, the named note otherwise
ResolveLink(linkText, sourcePath) ==
    LET linkpath == SplitHashFirst(linkText)
    IN  IF linkpath = <<>> THEN sourcePath
        ELSE IF EndsWith(linkpath, MD) THEN linkpath
        ELSE linkpath \o MD

HostLeaf(file) == [type |-> HostViewType(file), file |-> Some(file)]

\* The host opens a file in a new leaf, which becomes active
OpenInNewLeaf(w, file) ==
    [w EXCEPT !.leaves = Append(@, HostLeaf(file)),
              !.activeLeaf = Len(w.leaves) + 1]

\* The host opens a file in the active leaf
OpenInActiveLeaf(w, file) ==
    [w EXCEPT !.leaves = [@ EXCEPT ![w.activeLeaf] = HostLeaf(file)]]

\* The original Workspace.openLinkText: a new leaf when newLeaf is set, the
\* active leaf otherwise
OldOpenLinkText(w, linkText, sourcePath, newLeaf, openViewState) ==
    LET called == [w EXCEPT !.log = Append(@,
                       LogEntry("oldOpenLinkText", w.activeLeaf, w.depth,
                                LinkArgs(linkText, sourcePath, newLeaf, openViewState)))]
        file == ResolveLink(linkText, sourcePath)
    IN  IF newLeaf THEN OpenInNewLeaf(called, file) ELSE OpenInActiveLeaf(called, file)

\* The host's own click handlers, reached when propagation was not stopped:
\* a plain click on a file-tree row opens the file in the active leaf.  What
\* the host does with the other clicks is not modelled beyond their receipt.
HostClickHandlers(w, ev) ==
    LET received == [w EXCEPT !.log = Append(@, LogEntry("hostClick", w.activeLeaf, w.depth, ev))]
        titleEl == ev.target.closestNavTitle
        plain == ~ev.shiftKey /\ ~ev.ctrlKey /\ ~ev.metaKey /\ ~ev.altKey
    IN  IF plain /\ IsSome(titleEl) /\ IsSome(Get(titleEl).dataPath)
              /\ Get(Get(titleEl).dataPath) # <<>>
        THEN OpenInActiveLeaf(received, Get(Get(titleEl).dataPath))
        ELSE received

----------------------------------------------------------------------------
(* monkeyPatchOpenLinkText *)

\* const fileName = linkText.split("#")?.[0]
FileNameOf(linkText) == SplitHashFirst(linkText)

\* Variant: only a link without a file name counts as a same-file link
IsSameFileAnchorOnly(fileName, sourcePath) == fileName = <<>>

\* const isSameFile = fileName === "" || `${fileName}.md` === sourcePath
IsSameFile(fileName, sourcePath) ==
    fileName = <<>> \/ fileName \o MD = sourcePath

\* matchesMarkdownFile || matchesNonMarkdownFile
LeafMatches(leaf, fileName) ==
    LET matchesMarkdownFile ==
            /\ leaf.type = "markdown"
            /\ IsSome(leaf.file)
            /\ EndsWith(Get(leaf.file), fileName \o MD)
        matchesNonMarkdownFile ==
            /\ leaf.type # "markdown"
            /\ IsSome(leaf.file)
            /\ EndsWith(Get(leaf.file), fileName)
    IN  matchesMarkdownFile \/ matchesNonMarkdownFile

\* Variant: the scan stops at the first leaf accepted
ActivateFirst(w, found) ==
    IF found = <<>> THEN w ELSE SetActiveLeaf(w, Head(found))

\* iterateAllLeaves: every leaf the callback's test accepts is made active, in order
RECURSIVE ActivateEach(_, _)
ActivateEach(w, found) ==
    IF found = <<>> THEN w
    ELSE ActivateEach(SetActiveLeaf(w, Head(found)), Tail(found))

\* The leaves the scan of the patched openLinkText accepts
MatchingLeaves(ls, fileName) ==
    Ascending({i \in 1..Len(ls) : LeafMatches(ls[i], fileName)})

\* Variant: the caller's flag is passed on in every case
OpenNewLeafAsRequested(isSameFile, fileAlreadyOpen, newLeaf) ==
    IsSome(newLeaf) /\ Get(newLeaf)

\* let openNewLeaf = true; if (isSameFile) ... else if (fileAlreadyOpen) ...
OpenNewLeaf(isSameFile, fileAlreadyOpen, newLeaf) ==
    IF isSameFile THEN (IsSome(newLeaf) /\ Get(newLeaf))
    ELSE IF fileAlreadyOpen THEN FALSE
    ELSE TRUE

\* The arguments handed to oldOpenLinkText
Delegate(w, linkText, sourcePath, openNewLeaf, openViewState) ==
    OldOpenLinkText(w, linkText, sourcePath, openNewLeaf, openViewState)

\* The patched Workspace.openLinkText
PatchedOpenLinkText(w, linkText, sourcePath, newLeaf, openViewState) ==
    LET entered == [w EXCEPT !.log = Append(@,
                        LogEntry("openLinkText", w.activeLeaf, w.depth,
                                 LinkArgs(linkText, sourcePath, newLeaf, openViewState)))]
        fileName == FileNameOf(linkText)
        isSameFile == IsSameFile(fileName, sourcePath)
        found == IF ~isSameFile THEN MatchingLeaves(entered.leaves, fileName) ELSE <<>>
        scanned == ActivateEach(entered, found)
        fileAlreadyOpen == found # <<>>
        openNewLeaf == OpenNewLeaf(isSameFile, fileAlreadyOpen, newLeaf)
    IN  Delegate(scanned, linkText, sourcePath, openNewLeaf, openViewState)

----------------------------------------------------------------------------
(* generateClickHandler *)

\* Variant: the guard forgets the alt key
PureClickIgnoringAlt(ev) ==
    ~ev.shiftKey /\ ~ev.ctrlKey /\ ~ev.metaKey /\ ~ev.shiftKey

\* Variant: the guard forgets the meta key
PureClickIgnoringMeta(ev) ==
    ~ev.shiftKey /\ ~ev.ctrlKey /\ ~ev.shiftKey /\ ~ev.altKey

PureClick(ev) ==
    ~ev.shiftKey /\ ~ev.ctrlKey /\ ~ev.metaKey /\ ~ev.shiftKey /\ ~ev.altKey

IsNavFile(target) ==
    \/ "nav-file-title" \in target.classList
    \/ "nav-file-title-content" \in target.classList

IsDailyNoteRibbon(target) ==
    /\ target.ariaLabel = Some(DailyLabel)
    /\ "side-dock-ribbon-action" \in target.classList

IsUniqueNoteRibbon(target) ==
    /\ target.ariaLabel = Some(UniqueLabel)
    /\ "side-dock-ribbon-action" \in target.classList

classesToCheck ==
    { "tree-item search-result", "search-result-file-title", "tree-item-inner",
      "search-result-file-matches", "search-result-file-match", "search-result" }

IsSearchResult(target) == \E className \in target.classList : className \in classesToCheck

\* new MouseEvent('click', {bubbles: true, cancelable: true, metaKey: true})
SyntheticClick(target) == MouseEvent(target, {"meta"}, FALSE)

\* The leaves whose displayed file is exactly the path
LeavesShowing(ls, path) ==
    Ascending({i \in 1..Len(ls) : ls[i].file = Some(path)})

\* Variant: the click is suppressed also when a leaf already shows the file
OpenOrSwitchSuppressing(w, path) ==
    LET found == LeavesShowing(w.leaves, path)
        scanned == ActivateEach(w, found)
        result == found # <<>>
        emptyLeaves == LeavesOfType(scanned.leaves, "empty")
    IN  IF Len(emptyLeaves) > 0 THEN SetActiveLeaf(scanned, emptyLeaves[1])
        ELSE IF ~result
             THEN PatchedOpenLinkText(StopPropagation(scanned), path, path, Some(TRUE), None)
        ELSE StopPropagation(scanned)

\* Variant: a leaf that already shows the file takes precedence over an empty leaf
OpenOrSwitchMatchFirst(w, path) ==
    LET found == LeavesShowing(w.leaves, path)
        scanned == ActivateEach(w, found)
        result == found # <<>>
        emptyLeaves == LeavesOfType(scanned.leaves, "empty")
    IN  IF result THEN scanned
        ELSE IF Len(emptyLeaves) > 0 THEN SetActiveLeaf(scanned, emptyLeaves[1])
        ELSE PatchedOpenLinkText(StopPropagation(scanned), path, path, Some(TRUE), None)

\* The handler's steps once a path was read from the row
OpenOrSwitch(w, path) ==
    LET found == LeavesShowing(w.leaves, path)
        scanned == ActivateEach(w, found)
        result == found # <<>>
        emptyLeaves == LeavesOfType(scanned.leaves, "empty")
    IN  IF Len(emptyLeaves) > 0 THEN SetActiveLeaf(scanned, emptyLeaves[1])
        ELSE IF ~result
             THEN PatchedOpenLinkText(StopPropagation(scanned), path, path, Some(TRUE), None)
        ELSE scanned

HandleNavigationPanel(w, ev) ==
    LET titleEl == ev.target.closestNavTitle
    IN  IF ~IsSome(titleEl) THEN w
        ELSE LET path == Get(titleEl).dataPath
             IN  IF ~IsSome(path) \/ Get(path) = <<>> THEN w
                 ELSE OpenOrSwitch(w, Get(path))

HandleDailyNoteRibbon(w, ev) ==
    DispatchEvent(StopPropagation(w), SyntheticClick(ev.target))

HandleUniqueNoteRibbon(w, ev) ==
    DispatchEvent(StopPropagation(w), SyntheticClick(ev.target))

\* Variant: the original click is not suppressed
HandleSearchResultNoStop(w, ev) ==
    DispatchEvent(w, SyntheticClick(ev.target))

HandleSearchResult(w, ev) ==
    DispatchEvent(StopPropagation(w), SyntheticClick(ev.target))

\* The listener registered on the document
ClickHandler(w, ev) ==
    IF ~PureClick(ev) THEN w
    ELSE IF IsNavFile(ev.target) THEN HandleNavigationPanel(w, ev)
    ELSE IF IsDailyNoteRibbon(ev.target) THEN HandleDailyNoteRibbon(w, ev)
    ELSE IF IsUniqueNoteRibbon(ev.target) THEN HandleUniqueNoteRibbon(w, ev)
    ELSE IF IsSearchResult(ev.target) THEN HandleSearchResult(w, ev)
    ELSE w

----------------------------------------------------------------------------
(* The state machine *)

NoGesture ==
    [ kind       |-> "none",
      leaves     |-> <<>>,
      activeLeaf |-> 0,
      args       |-> NoData,
      event      |-> NoData ]

\* The workspaces the plugin is loaded into: one or two leaves, any views
Workspaces ==
    [1..1 -> LeafStates] \cup [1..2 -> LeafStates]

Init ==
    /\ leaves \in Workspaces
    /\ activeLeaf \in 1..Len(leaves)
    /\ events = <<>>
    /\ log = <<>>
    /\ gesture = NoGesture

Idle == events = <<>> /\ Len(leaves) <= MaxLeaves

\* The user clicks an element
UserClick(target, mods) ==
    /\ Idle
    /\ events' = <<MouseEvent(target, mods, TRUE)>>
    /\ log' = <<>>
    /\ gesture' = [ kind       |-> "click",
                    leaves     |-> leaves,
                    activeLeaf |-> activeLeaf,
                    args       |-> NoData,
                    event      |-> MouseEvent(target, mods, TRUE) ]
    /\ UNCHANGED <<leaves, activeLeaf>>

\* The plugin's capture-phase listener runs on the event being delivered
CaptureListener ==
    /\ events # <<>>
    /\ events[Len(events)].phase = "capture"
    /\ LET depth == Len(events)
           w == ClickHandler(World(depth), events[depth])
       IN  /\ depth + Len(w.dispatch) <= MaxNesting
           /\ leaves' = w.leaves
           /\ activeLeaf' = w.activeLeaf
           /\ log' = w.log
           /\ events' = [events EXCEPT ![depth] =
                            [@ EXCEPT !.phase = "bubble", !.stopped = w.stopped]]
                        \o w.dispatch
    /\ UNCHANGED gesture

\* The event reaches the host's handlers unless its propagation was stopped,
\* and its delivery ends
HostHandlers ==
    /\ events # <<>>
    /\ events[Len(events)].phase = "bubble"
    /\ LET depth == Len(events)
           ev == events[depth]
           w == IF ev.stopped = 0 THEN HostClickHandlers(World(depth), ev) ELSE World(depth)
       IN  /\ leaves' = w.leaves
           /\ activeLeaf' = w.activeLeaf
           /\ log' = w.log
           /\ events' = SubSeq(events, 1, depth - 1)
    /\ UNCHANGED gesture

\* Some code (the editor, another plugin) calls workspace.openLinkText
CallOpenLinkText(linkText, sourcePath, newLeaf, openViewState) ==
    /\ Idle
    /\ LET start == [World(0) EXCEPT !.log = <<>>]
           w == PatchedOpenLinkText(start, linkText, sourcePath, newLeaf, openViewState)
       IN  /\ leaves' = w.leaves
           /\ activeLeaf' = w.activeLeaf
           /\ log' = w.log
    /\ gesture' = [ kind       |-> "openLinkText",
                    leaves     |-> leaves,
                    activeLeaf |-> activeLeaf,
                    args       |-> LinkArgs(linkText, sourcePath, newLeaf, openViewState),
                    event      |-> NoData ]
    /\ UNCHANGED events

Click == \E target \in Targets, mods \in ModifierSets : UserClick(target, mods)

OpenLink ==
    \E linkText \in LinkTexts, sourcePath \in SourcePaths,
       newLeaf \in NewLeafArgs, openViewState \in OpenViewStates :
        CallOpenLinkText(linkText, sourcePath, newLeaf, openViewState)

Next == Click \/ CaptureListener \/ HostHandlers \/ OpenLink

Spec == Init /\ [][Next]_vars

----------------------------------------------------------------------------
(* Sequences of plain file-tree clicks and links to other files, from a     *)
(* workspace that shows no file twice                                       *)

NoFileTwice(ls) ==
    \A i, j \in 1..Len(ls) :
        (i # j /\ IsSome(ls[i].file)) => ls[i].file # ls[j].file

\* Notes and new tabs only
InitNoDup ==
    /\ Init
    /\ \A i \in 1..Len(leaves) : leaves[i].type \in {"markdown", "empty"}
    /\ NoFileTwice(leaves)

NavClick ==
    \E target \in Targets :
        /\ IsNavFile(target)
        /\ UserClick(target, {})

OpenOtherFile ==
    \E linkText \in LinkTexts, sourcePath \in SourcePaths,
       newLeaf \in NewLeafArgs, openViewState \in OpenViewStates :
        /\ ~IsSameFile(FileNameOf(linkText), sourcePath)
        /\ CallOpenLinkText(linkText, sourcePath, newLeaf, openViewState)

NextNoDup == NavClick \/ CaptureListener \/ HostHandlers \/ OpenOtherFile

SpecNoDup == InitNoDup /\ [][NextNoDup]_vars

----------------------------------------------------------------------------
(* Clicks outside the file tree (ribbon actions, search results, anything  *)
(* else), with or without modifier keys.  The DOM delivers an event to the *)
(* end: every listener runs to completion.                                 *)

OtherClick ==
    \E target \in Targets, mods \in ModifierSets :
        /\ ~IsNavFile(target)
        /\ UserClick(target, mods)

NextRedispatch == OtherClick \/ CaptureListener \/ HostHandlers

SpecRedispatch ==
    /\ Init
    /\ [][NextRedispatch]_vars
    /\ WF_vars(CaptureListener)
    /\ WF_vars(HostHandlers)

----------------------------------------------------------------------------
(* The vocabulary of the claims *)

\* The positions of the log where an operation was recorded
At(op) == {i \in 1..Len(log) : log[i].op = op}

\* The text before the first "#"
TextBeforeHash(s) ==
    LET n == CHOOSE k \in 0..Len(s) :
                 /\ \A i \in 1..k : s[i] # "#"
                 /\ (k = Len(s) \/ s[k + 1] = "#")
    IN  SubSeq(s, 1, n)

HasSuffix(s, t) == \E n \in 0..Len(s) : SubSeq(s, n + 1, Len(s)) = t

SameFileLink(linkText, sourcePath) ==
    \/ TextBeforeHash(linkText) = <<>>
    \/ TextBeforeHash(linkText) \o MD = sourcePath

PaneMatches(leaf, name) ==
    /\ IsSome(leaf.file)
    /\ \/ leaf.type = "markdown" /\ HasSuffix(Get(leaf.file), name \o MD)
       \/ leaf.type # "markdown" /\ HasSuffix(Get(leaf.file), name)

\* The panes, as they were when the gesture began, that match a link
MatchingPanes(linkText) ==
    {i \in 1..Len(gesture.leaves) : PaneMatches(gesture.leaves[i], TextBeforeHash(linkText))}

Last(S) == CHOOSE i \in S : \A j \in S : j <= i

First(S) == CHOOSE i \in S : \A j \in S : i <= j

\* The click classes of the listener, in their priority order
Classification(target) ==
    IF target.classList \cap {"nav-file-title", "nav-file-title-content"} # {}
        THEN "navigation-file"
    ELSE IF target.ariaLabel = Some(DailyLabel) /\ "side-dock-ribbon-action" \in target.classList
        THEN "daily-note-ribbon"
    ELSE IF target.ariaLabel = Some(UniqueLabel) /\ "side-dock-ribbon-action" \in target.classList
        THEN "unique-note-ribbon"
    ELSE IF target.classList \cap classesToCheck # {}
        THEN "search-result"
    ELSE "unhandled"

IsClick == gesture.kind = "click"

Modifiers(ev) == ev.shiftKey \/ ev.ctrlKey \/ ev.metaKey \/ ev.altKey

PureUserClick == IsClick /\ ~Modifiers(gesture.event)

\* A pure click on a file-tree row that carries a path
NavClickOn(path) ==
    /\ PureUserClick
    /\ Classification(gesture.event.target) = "navigation-file"
    /\ gesture.event.target.closestNavTitle = NavTitle(Some(path))

PanesShowing(path) ==
    {i \in 1..Len(gesture.leaves) : gesture.leaves[i].file = Some(path)}

EmptyPanes == {i \in 1..Len(gesture.leaves) : gesture.leaves[i].type = "empty"}

\* The listener has returned from the user's click; the host's handlers have not run yet
HandlerReturned == Len(events) = 1 /\ events[1].phase = "bubble"

----------------------------------------------------------------------------
(* The link-resolution interceptor *)

\* The call of the original primitive that follows the call of the patched
\* one recorded at position i
DelegationOf(i) == {j \in At("oldOpenLinkText") : j > i}

ActivationsAfter(i) == {k \in At("setActiveLeaf") : k > i}

\* C1: a call of the patched openLinkText with a link to another file, while
\* no open pane matches the link, reaches the original primitive with the
\* new-pane flag true, whatever flag was requested, and with the pane active
\* that was active at entry: setActiveLeaf is not called.
C1_NoMatchForcesNewPane ==
    \A i \in At("openLinkText") :
        LET a == log[i].data
        IN  (~SameFileLink(a.linkText, a.sourcePath) /\ MatchingPanes(a.linkText) = {})
            => /\ Cardinality(DelegationOf(i)) = 1
               /\ \A j \in DelegationOf(i) :
                      /\ log[j].data.newLeaf = TRUE
                      /\ log[j].leaf = log[i].leaf
               /\ ActivationsAfter(i) = {}

\* A direct call asked for no new pane, no pane matched, and the call was delegated
C1_Witness ==
    /\ gesture.kind = "openLinkText"
    /\ gesture.args.newLeaf = Some(FALSE)
    /\ ~SameFileLink(gesture.args.linkText, gesture.args.sourcePath)
    /\ MatchingPanes(gesture.args.linkText) = {}
    /\ \E f \in Files : gesture.leaves[gesture.activeLeaf].file = Some(f)
    /\ At("oldOpenLinkText") # {}

\* C2: a call of the patched openLinkText with a link to another file, while
\* at least one open pane matches, reaches the original primitive with the
\* last matching pane (in iteration order) active, that pane having been
\* activated before the delegation, and with the new-pane flag false even
\* when a new pane was requested.
C2_MatchActivatesLastAndReuses ==
    \A i \in At("openLinkText") :
        LET a == log[i].data
            matching == MatchingPanes(a.linkText)
        IN  (~SameFileLink(a.linkText, a.sourcePath) /\ matching # {})
            => /\ Cardinality(DelegationOf(i)) = 1
               /\ \A j \in DelegationOf(i) :
                      /\ log[j].leaf \in matching
                      /\ log[j].leaf = Last(matching)
                      /\ log[j].data.newLeaf = FALSE
                      /\ \E k \in ActivationsAfter(i) :
                             /\ k < j
                             /\ log[k].leaf = Last(matching)
                             /\ \A m \in ActivationsAfter(i) : m <= k

\* A new pane was requested while two panes matched, the first of them active
C2_Witness ==
    /\ gesture.kind = "openLinkText"
    /\ gesture.args.newLeaf = Some(TRUE)
    /\ ~SameFileLink(gesture.args.linkText, gesture.args.sourcePath)
    /\ Cardinality(MatchingPanes(gesture.args.linkText)) >= 2
    /\ gesture.activeLeaf = First(MatchingPanes(gesture.args.linkText))
    /\ At("oldOpenLinkText") # {}

\* C3: a call of the patched openLinkText with a same-file link (nothing
\* before the first "#", or that text followed by ".md" is the source path)
\* reaches the original primitive with the requested new-pane flag (false
\* when absent), with linkText, sourcePath and openViewState as given, and
\* with no pane activated.
C3_SameFileKeepsCallerIntent ==
    \A i \in At("openLinkText") :
        LET a == log[i].data
        IN  SameFileLink(a.linkText, a.sourcePath)
            => /\ Cardinality(DelegationOf(i)) = 1
               /\ \A j \in DelegationOf(i) :
                      /\ log[j].data.newLeaf = (a.newLeaf = Some(TRUE))
                      /\ log[j].data.linkText = a.linkText
                      /\ log[j].data.sourcePath = a.sourcePath
                      /\ log[j].data.openViewState = a.openViewState
                      /\ log[j].leaf = log[i].leaf
               /\ ActivationsAfter(i) = {}

\* A heading link of the source note itself, by its name, with a new pane
\* requested, while another pane than the active one shows a file of that name
C3_Witness ==
    /\ gesture.kind = "openLinkText"
    /\ gesture.args.linkText = <<"B", "#", "h">>
    /\ gesture.args.sourcePath = B_md
    /\ gesture.args.newLeaf = Some(TRUE)
    /\ gesture.args.openViewState = Some("ovs")
    /\ MatchingPanes(gesture.args.linkText) # {}
    /\ gesture.activeLeaf \notin MatchingPanes(gesture.args.linkText)
    /\ At("oldOpenLinkText") # {}

----------------------------------------------------------------------------
(* Duplicate panes *)

\* C4: from a workspace that shows no file twice, plain clicks on file-tree
\* rows and links to other files never make two panes show the same file.
C4_NoDuplicatePanes == NoFileTwice(leaves)

----------------------------------------------------------------------------
(* The click listener: file-tree rows *)

\* A pure click on the row of a file that a pane shows, with no empty pane
C5_Case ==
    \E path \in Files :
        /\ NavClickOn(path)
        /\ PanesShowing(path) # {}
        /\ EmptyPanes = {}
        /\ HandlerReturned

\* C5 as stated: the pane is activated, propagation is suppressed and the
\* handler does not call the open-link primitive.
C5_AsStated ==
    C5_Case
    => /\ \E path \in Files : NavClickOn(path) /\ activeLeaf \in PanesShowing(path)
       /\ events[1].stopped >= 1
       /\ At("openLinkText") = {}

\* C5 as amended: the pane (the last one showing the file) is activated,
\* propagation is NOT suppressed, and the handler does not call the open-link
\* primitive.
C5_MatchActivatesWithoutSuppression ==
    C5_Case
    => /\ \E path \in Files : NavClickOn(path) /\ activeLeaf = Last(PanesShowing(path))
       /\ At("setActiveLeaf") # {}
       /\ events[1].stopped = 0
       /\ At("stopPropagation") = {}
       /\ At("openLinkText") = {}
       /\ At("oldOpenLinkText") = {}
       /\ leaves = gesture.leaves

\* The file is shown by a pane that was not the active one
C5_Witness ==
    /\ C5_Case
    /\ \E path \in Files : NavClickOn(path) /\ gesture.activeLeaf \notin PanesShowing(path)

\* C6: a pure click on the row of a file that no pane shows, with no empty
\* pane: propagation is suppressed and the handler's openLinkText(P, P, true)
\* reaches the original primitive exactly once, with the new-pane flag true
\* and no pane activated on the way.
C6_UnopenedFileOpensInNewPane ==
    (/\ \E path \in Files : NavClickOn(path) /\ PanesShowing(path) = {}
     /\ EmptyPanes = {}
     /\ HandlerReturned)
    => /\ events[1].stopped >= 1
       /\ Cardinality(At("oldOpenLinkText")) = 1
       /\ \A j \in At("oldOpenLinkText") :
              /\ log[j].data.newLeaf = TRUE
              /\ log[j].leaf = gesture.activeLeaf
       /\ At("setActiveLeaf") = {}

\* A pure click on the row of a file, while an empty pane is open
C10_Case ==
    /\ \E path \in Files : NavClickOn(path)
    /\ EmptyPanes # {}
    /\ HandlerReturned

\* C10: a pure click on a file-tree row with a path, while an empty pane is
\* open: when the handler returns the first empty pane is active, propagation
\* is not suppressed and the handler has not called the open-link primitive.
C10_EmptyPaneIsActivated ==
    C10_Case
    => /\ activeLeaf = First(EmptyPanes)
       /\ events[1].stopped = 0
       /\ At("stopPropagation") = {}
       /\ At("openLinkText") = {}
       /\ At("oldOpenLinkText") = {}
       /\ leaves = gesture.leaves

\* Another pane shows the clicked file and was activated first; the empty
\* pane that ends up active is not the last pane
C10_Witness ==
    /\ C10_Case
    /\ \E path \in Files : NavClickOn(path) /\ PanesShowing(path) # {}
    /\ Cardinality(At("setActiveLeaf")) = 2
    /\ First(EmptyPanes) < Len(gesture.leaves)

----------------------------------------------------------------------------
(* The click listener: ribbon actions and search results *)

SynthesizedClicks == At("dispatchEvent")

\* C7: a pure click on a search result: the handler stops the propagation of
\* the click once and dispatches one synthesized click on the same element,
\* with metaKey, bubbles and cancelable set; it activates no pane and does
\* not call the open-link primitive.
C7_SearchResultIsRedispatched ==
    (/\ PureUserClick
     /\ Classification(gesture.event.target) = "search-result"
     /\ HandlerReturned)
    => /\ events[1].stopped = 1
       /\ Cardinality(At("stopPropagation")) = 1
       /\ \A i \in At("stopPropagation") : log[i].depth = 1
       /\ Cardinality(SynthesizedClicks) = 1
       /\ \A i \in SynthesizedClicks :
              /\ log[i].data.metaKey = TRUE
              /\ log[i].data.bubbles = TRUE
              /\ log[i].data.cancelable = TRUE
              /\ log[i].data.target = gesture.event.target
              /\ log[i].depth = 1
       /\ At("setActiveLeaf") = {}
       /\ At("openLinkText") = {}
       /\ At("oldOpenLinkText") = {}
       /\ activeLeaf = gesture.activeLeaf
       /\ leaves = gesture.leaves

C7_Witness ==
    /\ PureUserClick
    /\ Classification(gesture.event.target) = "search-result"
    /\ HandlerReturned
    /\ At("hostClick") # {}

\* C8: a click with shift, ctrl, meta or alt held, on any element: the
\* listener does nothing: no stopPropagation, no pane activated, no
\* synthesized event, no call of the open-link primitive.
C8_ModifierClickIsLeftAlone ==
    (IsClick /\ Modifiers(gesture.event))
    => /\ \A i \in 1..Len(log) : log[i].op = "hostClick"
       /\ \A d \in 1..Len(events) : events[d].stopped = 0
       /\ Len(events) <= 1
       /\ activeLeaf = gesture.activeLeaf

\* The listener has returned from an alt-click on a ribbon action
C8_Witness ==
    /\ IsClick
    /\ gesture.event.altKey
    /\ ~gesture.event.metaKey
    /\ Classification(gesture.event.target) = "daily-note-ribbon"
    /\ HandlerReturned

Redispatched ==
    /\ PureUserClick
    /\ Classification(gesture.event.target)
           \in {"daily-note-ribbon", "unique-note-ribbon", "search-result"}

\* The synthesized click is not suppressed and not re-dispatched; once the
\* user's click is handled, one synthesized click was dispatched in all and
\* the host's handlers received it, and not the user's click
C9_OneSynthesizedClick ==
    Redispatched
    => /\ Len(events) <= 2
       /\ Cardinality(SynthesizedClicks) <= 1
       /\ Cardinality(At("stopPropagation")) <= 1
       /\ \A d \in 2..Len(events) : events[d].stopped = 0 /\ events[d].metaKey
       /\ (events = <<>>)
          => /\ Cardinality(SynthesizedClicks) = 1
             /\ Cardinality(At("hostClick")) = 1
             /\ \A i \in At("hostClick") :
                    /\ log[i].data.metaKey
                    /\ ~log[i].data.isTrusted
                    /\ log[i].depth = 2
                    /\ \A j \in SynthesizedClicks : j < i

\* C9: no feedback loop: the click synthesized for a pure click on a ribbon
\* action or a search result re-enters the listener, is rejected by the
\* modifier guard and reaches the host's handlers; the handling of a user
\* click always ends, with exactly one synthesized click.
C9_NoFeedbackLoop ==
    /\ []C9_OneSynthesizedClick
    /\ (events # <<>>) ~> (events = <<>>)

\* A pure click on the unique-note ribbon action was handled to its end
C9_Witness ==
    /\ PureUserClick
    /\ Classification(gesture.event.target) = "unique-note-ribbon"
    /\ events = <<>>
    /\ At("hostClick") # {}

====
